---- MODULE Spec2Model ----
(***************************************************************************)
(* Model of the survey-campaign generator: the /generate endpoint          *)
(* (templates/app.py), the email path (templates/text_generation.py), the  *)
(* image path with its local fallback (templates/image_generator.py,       *)
(* templates/local_fallback.py).                                           *)
(*                                                                         *)
(* Python strings are sequences of one-character strings.  Python's None   *)
(* for an optional string is the value None below.  Exception messages and *)
(* prompts are sequences of text chunks.                                   *)
(***************************************************************************)
EXTENDS Integers, Sequences, FiniteSets, TLC

VARIABLES client, clock, files, nOps, last, sanIn, sanOut

vars == <<client, clock, files, nOps, last, sanIn, sanOut>>

(***************************************************************************)
(* Bounds                                                                  *)
(***************************************************************************)
MaxOps == 1
MaxClock == 1
MaxNameLen == 3

(***************************************************************************)
(* Strings                                                                 *)
(***************************************************************************)
None == <<"<None>">>

Falsy(s) == s = None \/ s = <<>>

UpperLetters == <<"A","B","C","D","E","F","G","H","I","J","K","L","M",
                  "N","O","P","Q","R","S","T","U","V","W","X","Y","Z">>

LowerLetters == <<"a","b","c","d","e","f","g","h","i","j","k","l","m",
                  "n","o","p","q","r","s","t","u","v","w","x","y","z">>

Range(s) == {s[i] : i \in DOMAIN s}

AsciiDigits == {"0","1","2","3","4","5","6","7","8","9"}

\* str.isdigit() is true of the decimal digits and of digit characters such
\* as the superscript two, which int() does not accept.
SuperscriptDigits == {"²"}

WhitespaceChars == {" ", "\t"}

ToLower == [c \in Range(UpperLetters) |->
               LowerLetters[CHOOSE i \in DOMAIN UpperLetters : UpperLetters[i] = c]]

ToUpper == [c \in Range(LowerLetters) |->
               UpperLetters[CHOOSE i \in DOMAIN LowerLetters : LowerLetters[i] = c]]

LowerChar(c) == IF c \in DOMAIN ToLower THEN ToLower[c] ELSE c

UpperChar(c) == IF c \in DOMAIN ToUpper THEN ToUpper[c] ELSE c

\* str.lower()
Lower(s) == [i \in DOMAIN s |-> LowerChar(s[i])]

\* The letters and the alphanumeric characters of the texts.
Letters == Range(UpperLetters) \cup Range(LowerLetters) \cup {"é"}

AlnumChars == Letters \cup AsciiDigits \cup SuperscriptDigits

\* str.isalnum() of one character
IsAlnum(c) == c \in AlnumChars

\* str.isdigit()
IsDigit(s) == s # <<>> /\ \A i \in DOMAIN s : s[i] \in AsciiDigits \cup SuperscriptDigits

DigitValues == [c \in AsciiDigits |->
                   CHOOSE n \in 0..9 : <<"0","1","2","3","4","5","6","7","8","9">>[n + 1] = c]

DigitValue(c) == DigitValues[c]

RECURSIVE DecimalValue(_)
DecimalValue(s) ==
    IF s = <<>> THEN 0
    ELSE 10 * DecimalValue(SubSeq(s, 1, Len(s) - 1)) + DigitValue(s[Len(s)])

\* int(s) for a string that passed isdigit(): a ValueError for a digit
\* character that is not a decimal digit.
IntParse(s) ==
    IF s # <<>> /\ \A i \in DOMAIN s : s[i] \in AsciiDigits
    THEN [raised |-> FALSE, value |-> DecimalValue(s)]
    ELSE [raised |-> TRUE, value |-> 0]

\* str.strip()
RECURSIVE RStrip(_)
RStrip(s) ==
    IF s # <<>> /\ s[Len(s)] \in WhitespaceChars
    THEN RStrip(SubSeq(s, 1, Len(s) - 1))
    ELSE s

RECURSIVE LStrip(_)
LStrip(s) ==
    IF s # <<>> /\ s[1] \in WhitespaceChars THEN LStrip(Tail(s)) ELSE s

Strip(s) == LStrip(RStrip(s))

(***************************************************************************)
(* Email path: templates/text_generation.py                                *)
(***************************************************************************)
S_formal == <<"f","o","r","m","a","l">>
S_casual == <<"c","a","s","u","a","l">>
S_educational == <<"e","d","u","c","a","t","i","o","n","a","l">>
S_compelling == <<"c","o","m","p","e","l","l","i","n","g">>

tone_instructions ==
    [k \in {S_formal, S_casual, S_educational, S_compelling} |->
        CASE k = S_formal -> <<"TONE GUIDELINES - FORMAL">>
          [] k = S_casual -> <<"TONE GUIDELINES - CASUAL">>
          [] k = S_educational -> <<"TONE GUIDELINES - EDUCATIONAL">>
          [] k = S_compelling -> <<"TONE GUIDELINES - COMPELLING">>]

\* dict.get(key, default)
DictGet(d, k, default) == IF k \in DOMAIN d THEN d[k] ELSE default

Block(name, arg) == [blk |-> name, arg |-> arg]

EducationalMissingMsg == <<"Educational tone selected, but no educational info provided.">>

\* The comparison a case-sensitive check would make.
IsEducationalCaseSensitive(tone) == tone = S_educational

IsEducational(tone) == Lower(tone) = S_educational

\* construct_prompt with the tone looked up as it was given, not lower-cased.
construct_prompt_exact_tone(survey_name, compensation, loi, tone, educational_info) ==
    LET details == <<Block("SURVEY DETAILS", <<survey_name, compensation, loi, tone>>)>>
        rest == <<Block("TONE", <<DictGet(tone_instructions, tone,
                                           tone_instructions[S_formal])>>),
                  Block("EMAIL REQUIREMENTS", <<>>),
                  Block("CONTENT SPECIFICATIONS", <<>>),
                  Block("AVOID", <<>>),
                  Block("OUTPUT FORMAT", << <<"Subject Line:">>, <<"Email Body:">>,
                                           <<"Signature:">> >>)>>
    IN  IF IsEducational(tone)
        THEN IF Falsy(educational_info)
             THEN [raised |-> TRUE, kind |-> "ValueError",
                   msg |-> EducationalMissingMsg, value |-> <<>>]
             ELSE [raised |-> FALSE, kind |-> "", msg |-> <<>>,
                   value |-> details
                             \o <<Block("Educational Focus", <<educational_info>>)>>
                             \o rest]
        ELSE [raised |-> FALSE, kind |-> "", msg |-> <<>>, value |-> details \o rest]

construct_prompt(survey_name, compensation, loi, tone, educational_info) ==
    LET details == <<Block("SURVEY DETAILS", <<survey_name, compensation, loi, tone>>)>>
        rest == <<Block("TONE", <<DictGet(tone_instructions, Lower(tone),
                                           tone_instructions[S_formal])>>),
                  Block("EMAIL REQUIREMENTS", <<>>),
                  Block("CONTENT SPECIFICATIONS", <<>>),
                  Block("AVOID", <<>>),
                  Block("OUTPUT FORMAT", << <<"Subject Line:">>, <<"Email Body:">>,
                                           <<"Signature:">> >>)>>
    IN  IF IsEducational(tone)
        THEN IF Falsy(educational_info)
             THEN [raised |-> TRUE, kind |-> "ValueError",
                   msg |-> EducationalMissingMsg, value |-> <<>>]
             ELSE [raised |-> FALSE, kind |-> "", msg |-> <<>>,
                   value |-> details
                             \o <<Block("Educational Focus", <<educational_info>>)>>
                             \o rest]
        ELSE [raised |-> FALSE, kind |-> "", msg |-> <<>>, value |-> details \o rest]

EmailErrorPrefix == <<"Error generating email: ">>

\* What the remote text service does with one call: a text, or an error.
TextOutcomes ==
    { [ok |-> TRUE, text |-> <<"Subject Line: ...">>, msg |-> <<>>],
      [ok |-> FALSE, text |-> <<>>, msg |-> <<"429 quota exceeded">>] }

TextCall(prompt, outcome) == [svc |-> "text", prompt |-> prompt, outcome |-> outcome]

\* generate_email without its try/except: the builder's exception escapes.
generate_email_propagating(survey_name, compensation, loi, tone, educational_info, textEnv) ==
    LET p == construct_prompt(survey_name, compensation, loi, tone, educational_info)
    IN  IF p.raised
        THEN [raised |-> TRUE, kind |-> p.kind, msg |-> p.msg,
              text |-> None, error |-> None, events |-> <<>>]
        ELSE IF textEnv.ok
        THEN [raised |-> FALSE, kind |-> "", msg |-> <<>>,
              text |-> textEnv.text, error |-> None,
              events |-> <<TextCall(p.value, textEnv)>>]
        ELSE [raised |-> FALSE, kind |-> "", msg |-> <<>>,
              text |-> None, error |-> EmailErrorPrefix \o textEnv.msg,
              events |-> <<TextCall(p.value, textEnv)>>]

\* generate_email calling the service a second time after a failure.
generate_email_retrying(survey_name, compensation, loi, tone, educational_info, textEnv) ==
    LET r == generate_email_propagating(survey_name, compensation, loi, tone,
                                        educational_info, textEnv)
    IN  IF r.raised
        THEN [r EXCEPT !.raised = FALSE, !.kind = "", !.msg = <<>>,
                       !.error = EmailErrorPrefix \o r.msg]
        ELSE IF r.error # None
        THEN [r EXCEPT !.events = r.events \o r.events]
        ELSE r

generate_email(survey_name, compensation, loi, tone, educational_info, textEnv) ==
    LET p == construct_prompt(survey_name, compensation, loi, tone, educational_info)
    IN  IF p.raised
        THEN [raised |-> FALSE, kind |-> "", msg |-> <<>>,
              text |-> None, error |-> EmailErrorPrefix \o p.msg, events |-> <<>>]
        ELSE IF textEnv.ok
        THEN [raised |-> FALSE, kind |-> "", msg |-> <<>>,
              text |-> textEnv.text, error |-> None,
              events |-> <<TextCall(p.value, textEnv)>>]
        ELSE [raised |-> FALSE, kind |-> "", msg |-> <<>>,
              text |-> None, error |-> EmailErrorPrefix \o textEnv.msg,
              events |-> <<TextCall(p.value, textEnv)>>]

(***************************************************************************)
(* Bytes, base64 and image files                                           *)
(***************************************************************************)
\* bytes are sequences of 0..255; NoBytes is Python's None for bytes.
NoBytes == <<-1>>

\* A base64 text is the sequence of its characters' alphabet indices,
\* 0..63, with B64Pad for "=".
B64Pad == 64

\* base64.b64encode
RECURSIVE b64encode(_)
b64encode(b) ==
    IF b = <<>> THEN <<>>
    ELSE IF Len(b) = 1
    THEN <<b[1] \div 4, (b[1] % 4) * 16, B64Pad, B64Pad>>
    ELSE IF Len(b) = 2
    THEN <<b[1] \div 4, (b[1] % 4) * 16 + b[2] \div 16, (b[2] % 16) * 4, B64Pad>>
    ELSE <<b[1] \div 4, (b[1] % 4) * 16 + b[2] \div 16,
           (b[2] % 16) * 4 + b[3] \div 64, b[3] % 64>>
         \o b64encode(SubSeq(b, 4, Len(b)))

\* base64.b64decode
RECURSIVE b64decode(_)
b64decode(t) ==
    IF Len(t) < 4 THEN <<>>
    ELSE LET b1 == t[1] * 4 + t[2] \div 16
             b2 == (t[2] % 16) * 16 + t[3] \div 4
             b3 == (t[3] % 4) * 64 + t[4]
         IN  (IF t[3] = B64Pad THEN <<b1>>
              ELSE IF t[4] = B64Pad THEN <<b1, b2>>
              ELSE <<b1, b2, b3>>)
             \o b64decode(SubSeq(t, 5, Len(t)))

PngMagic == <<137, 80, 78, 71>>
JpegMagic == <<255, 216, 255>>

\* A PIL image: its size, mode and pixel content (px, as bytes).
NoImage == [w |-> 0, h |-> 0, mode |-> "", px |-> <<>>]

\* Image.save(..., format): the encoded bytes of an image.
EncodeImage(img, format) ==
    (IF format = "PNG" THEN PngMagic ELSE JpegMagic) \o <<img.w \div 256, img.w % 256,
                                                          img.h \div 256, img.h % 256>>
                                                     \o img.px

\* PILImage.open(BytesIO(data)): the decoded image, or an error for data
\* that is no image.
DecodeImage(data) ==
    IF Len(data) >= 8 /\ SubSeq(data, 1, 4) = PngMagic
    THEN [raised |-> FALSE,
          img |-> [w |-> data[5] * 256 + data[6], h |-> data[7] * 256 + data[8],
                   mode |-> "RGB", px |-> SubSeq(data, 9, Len(data))]]
    ELSE IF Len(data) >= 7 /\ SubSeq(data, 1, 3) = JpegMagic
    THEN [raised |-> FALSE,
          img |-> [w |-> data[4] * 256 + data[5], h |-> data[6] * 256 + data[7],
                   mode |-> "RGB", px |-> SubSeq(data, 8, Len(data))]]
    ELSE [raised |-> TRUE, img |-> NoImage]

RECURSIVE LastIndexOf(_, _)
LastIndexOf(s, c) ==
    IF s = <<>> THEN 0
    ELSE IF s[Len(s)] = c THEN Len(s)
    ELSE LastIndexOf(SubSeq(s, 1, Len(s) - 1), c)

\* The extension Image.save(path) reads the format from (os.path.splitext,
\* lowercased): the text from the last dot of the last path component.
FileExtension(filename) ==
    LET slash == LastIndexOf(filename, "/")
        base == SubSeq(filename, slash + 1, Len(filename))
        dot == LastIndexOf(base, ".")
    IN  IF dot <= 1 THEN <<>> ELSE Lower(SubSeq(base, dot, Len(base)))

\* Image.save(path) without a format: "PNG", "JPEG", or "" for the
\* ValueError of an unknown extension.
FormatOfFilename(filename) ==
    LET ext == FileExtension(filename)
    IN  IF ext = <<".","p","n","g">> THEN "PNG"
        ELSE IF ext \in {<<".","j","p","g">>, <<".","j","p","e","g">>} THEN "JPEG"
        ELSE ""

\* os.path.join(os.getcwd(), 'static', 'images')
output_dir == <<"/", "app", "/", "static", "/", "images">>

\* os.path.join(output_dir, image_filename): an absolute second argument
\* replaces the first.
os_path_join(dir, filename) ==
    IF filename # <<>> /\ filename[1] = "/" THEN filename ELSE dir \o <<"/">> \o filename

(***************************************************************************)
(* File names                                                              *)
(***************************************************************************)
\* "".join(c for c in survey_name if c.isalnum() or c in (' ', '-', '_'))
KeepSafeChars(s) == SelectSeq(s, LAMBDA c : IsAlnum(c) \/ c \in {" ", "-", "_"})

\* str.replace(' ', '_', 1): only the first space.
RECURSIVE ReplaceFirstSpace(_)
ReplaceFirstSpace(s) ==
    IF s = <<>> THEN <<>>
    ELSE IF s[1] = " " THEN <<"_">> \o Tail(s)
    ELSE <<s[1]>> \o ReplaceFirstSpace(Tail(s))

\* str.replace(' ', '_')
ReplaceSpaces(s) == [i \in DOMAIN s |-> IF s[i] = " " THEN "_" ELSE s[i]]

\* The stem without the rstrip().
SafeStemNoStrip(survey_name) == ReplaceSpaces(KeepSafeChars(survey_name))

\* safe_name.replace(' ', '_') of the safe_name computed from survey_name
SafeStem(survey_name) == ReplaceSpaces(RStrip(KeepSafeChars(survey_name)))

DigitChar(d) == <<"0","1","2","3","4","5","6","7","8","9">>[d + 1]

\* %H, %M, %S: two digits
Digit2(n) == <<DigitChar((n \div 10) % 10), DigitChar(n % 10)>>

\* datetime.datetime.now().strftime("%Y%m%d_%H%M%S"); the clock counts the
\* seconds of one day.
Timestamp(now) ==
    <<"2","0","2","5","0","1","0","1","_">>
    \o Digit2(now \div 3600) \o Digit2((now \div 60) % 60) \o Digit2(now % 60)

RemotePrefix == <<"s","u","r","v","e","y","_","i","m","a","g","e","_">>
FallbackPrefix == <<"f","a","l","l","b","a","c","k","_">>
PngSuffix == <<".","p","n","g">>

DerivedFilename(prefix, survey_name, now) ==
    prefix \o SafeStem(survey_name) \o <<"_">> \o Timestamp(now) \o PngSuffix

\* Line 218
RemoteFilename(survey_name, now) == DerivedFilename(RemotePrefix, survey_name, now)

\* The fallback's name with the remote path's prefix.
FallbackFilenameRemotePrefix(survey_name, now) ==
    DerivedFilename(RemotePrefix, survey_name, now)

\* Line 258
FallbackFilename(survey_name, now) == DerivedFilename(FallbackPrefix, survey_name, now)

StartsWith(s, prefix) == Len(s) >= Len(prefix) /\ SubSeq(s, 1, Len(prefix)) = prefix

(***************************************************************************)
(* Image prompt: templates/image_generator.py, construct_image_prompt      *)
(***************************************************************************)
S_cardiology == <<"c","a","r","d","i","o","l","o","g","y">>
S_oncology == <<"o","n","c","o","l","o","g","y">>
S_primary_care == <<"p","r","i","m","a","r","y","_","c","a","r","e">>
S_neurology == <<"n","e","u","r","o","l","o","g","y">>
S_pediatrics == <<"p","e","d","i","a","t","r","i","c","s">>
S_psychiatry == <<"p","s","y","c","h","i","a","t","r","y">>
S_emergency_medicine == <<"e","m","e","r","g","e","n","c","y","_","m","e","d","i","c","i","n","e">>
S_surgery == <<"s","u","r","g","e","r","y">>
S_radiology == <<"r","a","d","i","o","l","o","g","y">>
S_pharmacy == <<"p","h","a","r","m","a","c","y">>
S_general == <<"g","e","n","e","r","a","l">>
S_infographic == <<"i","n","f","o","g","r","a","p","h","i","c">>
S_medical_illustration == <<"m","e","d","i","c","a","l","_","i","l","l","u","s","t","r","a","t","i","o","n">>
S_clean_modern == <<"c","l","e","a","n","_","m","o","d","e","r","n">>
S_professional == <<"p","r","o","f","e","s","s","i","o","n","a","l">>

specialty_elements ==
    [k \in {S_cardiology, S_oncology, S_primary_care, S_neurology, S_pediatrics, S_psychiatry, S_emergency_medicine, S_surgery, S_radiology, S_pharmacy, S_general} |->
        CASE k = S_cardiology -> <<"subtle heart imagery, ECG patterns, stethoscope elements, cardiovascular icons">>
          [] k = S_oncology -> <<"cellular imagery, research lab elements, microscope motifs, hope and healing themes">>
          [] k = S_primary_care -> <<"diverse patient care imagery, family medicine elements, community health themes">>
          [] k = S_neurology -> <<"brain imagery, neural networks, neurological examination tools">>
          [] k = S_pediatrics -> <<"child-friendly colors, pediatric care elements, family-centered themes">>
          [] k = S_psychiatry -> <<"mental health awareness imagery, brain and mind connection themes">>
          [] k = S_emergency_medicine -> <<"urgent care elements, emergency room themes, critical care imagery">>
          [] k = S_surgery -> <<"surgical precision imagery, OR themes, medical precision elements">>
          [] k = S_radiology -> <<"imaging equipment, scan imagery, diagnostic themes">>
          [] k = S_pharmacy -> <<"pharmaceutical elements, medication management themes">>
          [] k = S_general -> <<"universal medical symbols, healthcare collaboration imagery, medical professionalism">>]

style_instructions ==
    [k \in {S_professional, S_infographic, S_medical_illustration, S_clean_modern} |->
        CASE k = S_professional -> <<"PROFESSIONAL STYLE">>
          [] k = S_infographic -> <<"INFOGRAPHIC STYLE">>
          [] k = S_medical_illustration -> <<"MEDICAL ILLUSTRATION STYLE">>
          [] k = S_clean_modern -> <<"CLEAN MODERN STYLE">>]

construct_image_prompt(survey_name, medical_specialty, tone, image_style, include_text) ==
    <<Block("CAMPAIGN DETAILS", <<survey_name, medical_specialty, tone, image_style>>),
      Block("VISUAL REQUIREMENTS", <<>>),
      Block("Specialty Elements",
            <<DictGet(specialty_elements, Lower(medical_specialty),
                      specialty_elements[S_general])>>),
      Block("STYLE",
            <<DictGet(style_instructions, Lower(image_style),
                      style_instructions[S_professional])>>),
      IF include_text
      THEN Block("TEXT OVERLAY REQUIREMENTS", <<survey_name>>)
      ELSE Block("Create image without text overlay", <<>>),
      Block("COMPOSITION GUIDELINES", <<>>),
      Block("TECHNICAL SPECIFICATIONS", <<>>)>>

(***************************************************************************)
(* Local fallback renderer: templates/local_fallback.py                    *)
(***************************************************************************)
\* specialty -> (background, text, accent), each an RGB triple
colors ==
    [k \in {S_cardiology, S_oncology, S_neurology, S_primary_care, S_pediatrics, S_surgery, S_general} |->
        CASE k = S_cardiology -> <<<<44, 82, 130>>, <<255, 255, 255>>, <<229, 62, 62>>>>
          [] k = S_oncology -> <<<<85, 60, 154>>, <<255, 255, 255>>, <<159, 122, 234>>>>
          [] k = S_neurology -> <<<<26, 54, 93>>, <<255, 255, 255>>, <<66, 153, 225>>>>
          [] k = S_primary_care -> <<<<45, 55, 72>>, <<255, 255, 255>>, <<72, 187, 120>>>>
          [] k = S_pediatrics -> <<<<43, 108, 176>>, <<255, 255, 255>>, <<246, 173, 85>>>>
          [] k = S_surgery -> <<<<26, 32, 44>>, <<255, 255, 255>>, <<56, 178, 172>>>>
          [] k = S_general -> <<<<45, 55, 72>>, <<255, 255, 255>>, <<66, 153, 225>>>>]

IsLetter(c) == c \in Letters

\* str.title(): a letter is upper-cased after a non-letter, lower-cased
\* after a letter.
Title(s) ==
    [i \in DOMAIN s |->
        IF i = 1 \/ ~IsLetter(s[i - 1]) THEN UpperChar(s[i]) ELSE LowerChar(s[i])]

AllChars ==
    UpperLetters \o LowerLetters
    \o <<"0","1","2","3","4","5","6","7","8","9">>
    \o <<" ", "-", "_", "!", ".", "/", "\t", "²", "é">>

CharCodes == [c \in Range(AllChars) |-> CHOOSE i \in DOMAIN AllChars : AllChars[i] = c]

CharCode(c) == CharCodes[c]

\* Lines 52-53: textwrap.fill(survey_name, width=35).split('\n'), with the
\* defaults of the text wrapper: tabs are expanded, whitespace becomes
\* spaces, a word may break after a hyphen, a word longer than the width is
\* broken, and whitespace is dropped at the end of every line and at the
\* start of every line but the first.
TitleWidth == 35

\* str.expandtabs(): a tab becomes the spaces up to the next multiple of
\* eight columns; col is the column r starts at.
RECURSIVE ExpandTabs(_, _)
ExpandTabs(r, col) ==
    IF \A i \in DOMAIN r : r[i] # "\t" THEN r
    ELSE LET i == CHOOSE j \in DOMAIN r :
                      r[j] = "\t" /\ \A l \in 1..(j - 1) : r[l] # "\t"
             breaks == {j \in 1..(i - 1) : r[j] \in {"\n", "\r"}}
             column == IF breaks = {} THEN col + i - 1
                       ELSE i - 1 - (CHOOSE j \in breaks : \A l \in breaks : l <= j)
         IN  SubSeq(r, 1, i - 1)
             \o [n \in 1..(8 - (column % 8)) |-> " "]
             \o ExpandTabs(SubSeq(r, i + 1, Len(r)), 0)

\* Tabs are expanded and every whitespace character becomes a space.
MungeWhitespace(s) ==
    LET t == ExpandTabs(s, 0)
    IN  [i \in DOMAIN t |-> IF t[i] \in {" ", "\t", "\n", "\r", "\f"} THEN " " ELSE t[i]]

\* The end of the chunk of t that starts at p: a run of spaces, a dash of
\* two or more hyphens between words, or a word, which ends before a space,
\* before a dash, or after a hyphen that has two letters (or letter,
\* hyphen, letter) before it and a letter and then a letter or a hyphen and
\* a letter after it.
ChunkEnd(t, p) ==
    LET At(i) == IF i \in DOMAIN t THEN t[i] ELSE ""
        IsWordChar(c) == IsAlnum(c) \/ c = "_"
        IsWrapLetter(c) == IsWordChar(c) /\ c \notin AsciiDigits
        IsWordPunct(c) == IsWordChar(c) \/ c \in {"!", "\"", "'", "&", ".", ",", "?"}
        RunEnd(q, c) ==
            CHOOSE e \in q..Len(t) : (\A i \in q..e : t[i] = c) /\ At(e + 1) # c
        EmDashAt(q) ==
            /\ IsWordPunct(At(q - 1))
            /\ At(q) = "-"
            /\ At(q + 1) = "-"
            /\ IsWordChar(At(RunEnd(q, "-") + 1))
        HyphenBreakAt(h) ==
            /\ At(h) = "-"
            /\ \/ IsWrapLetter(At(h - 2)) /\ IsWrapLetter(At(h - 1))
               \/ IsWrapLetter(At(h - 3)) /\ At(h - 2) = "-" /\ IsWrapLetter(At(h - 1))
            /\ IsWrapLetter(At(h + 1))
            /\ \/ IsWrapLetter(At(h + 2))
               \/ At(h + 2) = "-" /\ IsWrapLetter(At(h + 3))
        WordStops(k) ==
            \/ HyphenBreakAt(p + k)
            \/ At(p + k) \in {"", " "}
            \/ EmDashAt(p + k)
        WordEnd(k) == IF HyphenBreakAt(p + k) THEN p + k ELSE p + k - 1
    IN  IF t[p] = " " THEN RunEnd(p, " ")
        ELSE IF EmDashAt(p) THEN RunEnd(p, "-")
        ELSE WordEnd(CHOOSE n \in 1..(Len(t) - p + 1) :
                         \A j \in 1..n : WordStops(j) <=> j = n)

\* The chunks of a text, from position p on.
RECURSIVE SplitChunks(_, _)
SplitChunks(t, p) ==
    LET ChunkTo(e) == <<SubSeq(t, p, e)>> \o SplitChunks(t, e + 1)
    IN  IF p > Len(t) THEN <<>> ELSE ChunkTo(ChunkEnd(t, p))

RECURSIVE Concat(_)
Concat(chunks) == IF chunks = <<>> THEN <<>> ELSE chunks[1] \o Concat(Tail(chunks))

\* The lines the chunks fill, greedily; haveLines: a line exists already.
\* A word longer than the width is cut at the space left on the line, or
\* after the last hyphen that fits there if characters other than hyphens
\* precede it.
RECURSIVE WrapChunks(_, _)
WrapChunks(chunks, haveLines) ==
    LET IsBlank(chunk) == Strip(chunk) = <<>>
        Emit(cur_line, left) ==
            (IF cur_line # <<>> THEN <<Concat(cur_line)>> ELSE <<>>)
            \o WrapChunks(left, haveLines \/ cur_line # <<>>)
        DropBlank(cur_line, left) ==
            IF cur_line # <<>> /\ IsBlank(cur_line[Len(cur_line)])
            THEN Emit(SubSeq(cur_line, 1, Len(cur_line) - 1), left)
            ELSE Emit(cur_line, left)
        CutAt(fit, rest, end) ==
            DropBlank(Append(fit, SubSeq(rest[1], 1, end)),
                      <<SubSeq(rest[1], end + 1, Len(rest[1]))>> \o Tail(rest))
        LastHyphen(chunk, space_left) ==
            CHOOSE i \in 0..space_left :
                /\ i > 0 => chunk[i] = "-"
                /\ \A j \in (i + 1)..space_left : chunk[j] # "-"
        HandleLongWord(fit, rest, space_left, hyphen) ==
            IF hyphen > 0 /\ \E j \in 1..(hyphen - 1) : rest[1][j] # "-"
            THEN CutAt(fit, rest, hyphen)
            ELSE CutAt(fit, rest, space_left)
        Fill(fit, rest, space_left) ==
            IF rest # <<>> /\ Len(rest[1]) > TitleWidth
            THEN HandleLongWord(fit, rest, space_left, LastHyphen(rest[1], space_left))
            ELSE DropBlank(fit, rest)
        Take(c0, n) ==
            Fill(SubSeq(c0, 1, n), SubSeq(c0, n + 1, Len(c0)),
                 TitleWidth - Len(Concat(SubSeq(c0, 1, n))))
        Line(c0) ==
            Take(c0, CHOOSE m \in 0..Len(c0) :
                         /\ Len(Concat(SubSeq(c0, 1, m))) <= TitleWidth
                         /\ m < Len(c0) => Len(Concat(SubSeq(c0, 1, m + 1))) > TitleWidth)
    IN  IF chunks = <<>> THEN <<>>
        ELSE IF haveLines /\ IsBlank(chunks[1]) THEN Line(Tail(chunks))
        ELSE Line(chunks)

\* "\n".join(lines)
RECURSIVE JoinLines(_)
JoinLines(lines) ==
    IF lines = <<>> THEN <<>>
    ELSE IF Len(lines) = 1 THEN lines[1]
    ELSE lines[1] \o <<"\n">> \o JoinLines(Tail(lines))

\* textwrap.fill: the lines, joined by newlines.
textwrap_fill(text) ==
    JoinLines(WrapChunks(SplitChunks(MungeWhitespace(text), 1), FALSE))

\* str.split('\n')
RECURSIVE SplitLines(_)
SplitLines(s) ==
    IF \A i \in DOMAIN s : s[i] # "\n" THEN <<s>>
    ELSE LET i == CHOOSE j \in DOMAIN s : s[j] = "\n" /\ \A l \in 1..(j - 1) : s[l] # "\n"
         IN  <<SubSeq(s, 1, i - 1)>> \o SplitLines(SubSeq(s, i + 1, Len(s)))

\* The pixels a text drawn at height y leaves: its row and its characters,
\* in order; nothing below the canvas.
ImageWidth == 1280
ImageHeight == 720

TextPixels(s) == [i \in DOMAIN s |-> CharCode(s[i])]

DrawText(y, s) == IF y >= ImageHeight THEN <<>> ELSE <<y \div 10>> \o TextPixels(s)

\* Lines 57-77: the title lines, 70 pixels apart, the subtitle below them
\* and the tagline.
RECURSIVE DrawTitle(_, _, _)
DrawTitle(title_lines, i, title_start_y) ==
    IF i > Len(title_lines) THEN <<>>
    ELSE DrawText(title_start_y + ((i - 1) * 70), title_lines[i])
         \o DrawTitle(title_lines, i + 1, title_start_y)

ResearchSurveySuffix ==
    <<" ","R","e","s","e","a","r","c","h"," ","S","u","r","v","e","y">>

tagline ==
    <<"H","e","a","l","t","h","c","a","r","e"," ","P","r","o","f","e","s","s","i","o","n","a","l",
      " ","R","e","s","e","a","r","c","h"," ","I","n","i","t","i","a","t","i","v","e">>

\* The fonts the renderer ends up with: "arial" when
\* ImageFont.truetype("arial.ttf", ...) finds the font; otherwise the
\* default font, which is scalable ("default") or a bitmap font ("bitmap")
\* according to the imaging library installed.
Fonts == {"arial", "default", "bitmap"}

\* draw.textbbox measures scalable fonts only.
TextbboxErrorMsg == <<"Only supported for TrueType fonts">>

generate_pro_fallback(survey_name, specialty, font) ==
    LET scheme == DictGet(colors, Lower(specialty), colors[S_general])
        bg_color == scheme[1]
        text_color == scheme[2]
        accent_color == scheme[3]
        specialty_text == Title(specialty) \o ResearchSurveySuffix
        Texts(title_lines, title_start_y) ==
            DrawTitle(title_lines, 1, title_start_y)
            \o DrawText(title_start_y + (Len(title_lines) * 70) + 40, specialty_text)
            \o DrawText(580, tagline)
        Draw(title_lines) == Texts(title_lines, IF Len(title_lines) = 1 THEN 250 ELSE 220)
    IN  IF font = "bitmap"
        THEN [raised |-> TRUE, msg |-> TextbboxErrorMsg, img |-> NoImage]
        ELSE [raised |-> FALSE, msg |-> <<>>,
              img |-> [w |-> ImageWidth, h |-> ImageHeight, mode |-> "RGB",
                       px |-> bg_color \o accent_color \o text_color
                              \o <<IF font = "arial" THEN 1 ELSE 0>>
                              \o Draw(SplitLines(textwrap_fill(survey_name)))]]

(***************************************************************************)
(* Generation orchestrator: templates/image_generator.py                   *)
(***************************************************************************)
\* Python's None for the base64 text.
NoB64 == <<-1>>

\* The parts of a remote response: a text part, an inline image, inline
\* data that is no image.
TextPart == [text |-> <<"A banner for the survey">>, data |-> NoBytes]

ImagePart(n) ==
    [text |-> None,
     data |-> EncodeImage([w |-> 1024, h |-> 576, mode |-> "RGB", px |-> <<n>>], "PNG")]

CorruptPart == [text |-> None, data |-> <<0, 1>>]

\* The parts of the responses the remote image service is taken to give.
ResponseSamples ==
    { <<>>, <<TextPart>>, <<ImagePart(1)>>, <<CorruptPart>>,
      <<TextPart, ImagePart(1)>>, <<ImagePart(1), TextPart>>,
      <<ImagePart(2), ImagePart(1)>>, <<CorruptPart, ImagePart(1)>> }

\* What the remote image service does with one call: an error, or a
\* response with parts.
RemoteOutcomes ==
    {[raised |-> TRUE, msg |-> <<"503 service unavailable">>, parts |-> <<>>]}
    \cup {[raised |-> FALSE, msg |-> <<>>, parts |-> p] : p \in ResponseSamples}

\* The environment of one generate_survey_image call: the remote outcome,
\* whether writing a file succeeds in the remote and in the fallback path,
\* and the font the renderer draws with.
ImageEnvs ==
    [remote : RemoteOutcomes, saveRemoteOK : BOOLEAN, saveFallbackOK : BOOLEAN,
     font : Fonts]

ImageCall(prompt, outcome) == [svc |-> "image", prompt |-> prompt, outcome |-> outcome]
FallbackRender(survey_name, specialty, ok) ==
    [svc |-> "fallback", survey_name |-> survey_name, specialty |-> specialty, ok |-> ok]
SaveFile(path, ok) == [svc |-> "save", path |-> path, ok |-> ok]

ImageResult(pil_image, image_filename, image_base64, image_message, events, writes) ==
    [pil_image |-> pil_image, image_filename |-> image_filename,
     image_base64 |-> image_base64, image_message |-> image_message,
     events |-> events, writes |-> writes]

GeminiErrorPrefix == <<"Gemini API error: ">>
DefaultImageMessage == <<"AI-generated image created successfully">>
NoImageMessage == <<"No image generated by Gemini API">>
FallbackMessage == <<"Professional fallback image generated successfully.">>
UnknownExtensionMsg == <<"unknown file extension">>
DiskErrorMsg == <<"[Errno 28] No space left on device">>
DecodeErrorMsg == <<"cannot identify image file">>
NameErrorMsg == <<"name 'client' is not defined">>

\* Lines 208-232: the first inline-data part is decoded, named, saved and
\* encoded.  An exception is the except clause's result.
HandleImagePart(part, image_message, survey_name, save_filename, env, now, call) ==
    LET dec == DecodeImage(part.data)
        image_filename == IF ~Falsy(save_filename) THEN save_filename
                          ELSE RemoteFilename(survey_name, now)
        full_image_path == os_path_join(output_dir, image_filename)
        format == FormatOfFilename(full_image_path)
    IN  IF dec.raised
        THEN ImageResult(NoImage, None, NoB64, GeminiErrorPrefix \o DecodeErrorMsg,
                         <<call>>, <<>>)
        ELSE IF format = ""
        THEN ImageResult(NoImage, None, NoB64, GeminiErrorPrefix \o UnknownExtensionMsg,
                         <<call>>, <<>>)
        ELSE IF ~env.saveRemoteOK
        THEN ImageResult(NoImage, None, NoB64, GeminiErrorPrefix \o DiskErrorMsg,
                         <<call, SaveFile(full_image_path, FALSE)>>, <<>>)
        ELSE ImageResult(dec.img, image_filename,
                         b64encode(EncodeImage(dec.img, "PNG")), image_message,
                         <<call, SaveFile(full_image_path, TRUE)>>,
                         <<[path |-> full_image_path,
                            data |-> EncodeImage(dec.img, format)]>>)

\* Lines 200-234: the loop over the parts of the response.
RECURSIVE ScanParts(_, _, _, _, _, _, _, _)
ScanParts(parts, i, image_message, survey_name, save_filename, env, now, call) ==
    IF i > Len(parts)
    THEN ImageResult(NoImage, None, NoB64, NoImageMessage, <<call>>, <<>>)
    ELSE IF parts[i].text # None
    THEN ScanParts(parts, i + 1, parts[i].text, survey_name, save_filename, env, now, call)
    ELSE IF parts[i].data # NoBytes
    THEN HandleImagePart(parts[i], image_message, survey_name, save_filename, env, now, call)
    ELSE ScanParts(parts, i + 1, image_message, survey_name, save_filename, env, now, call)

\* gemini is the client the import at the top of the module found: "new"
\* (google.genai, with client and types), "old" (google.generativeai only:
\* GEMINI_AVAILABLE, but no name client), or "none".
_try_new_gemini_api(prompt, survey_name, save_filename, env, now, gemini) ==
    IF gemini # "new"
    THEN ImageResult(NoImage, None, NoB64, GeminiErrorPrefix \o NameErrorMsg, <<>>, <<>>)
    ELSE IF env.remote.raised
    THEN ImageResult(NoImage, None, NoB64, GeminiErrorPrefix \o env.remote.msg,
                     <<ImageCall(prompt, env.remote)>>, <<>>)
    ELSE ScanParts(env.remote.parts, 1, DefaultImageMessage, survey_name, save_filename,
                   env, now, ImageCall(prompt, env.remote))

\* An except clause that loses the message.
FallbackFailureNoMessage(msg, events) ==
    ImageResult(NoImage, None, NoB64, None, events, <<>>)

\* Lines 278-280: the except clause of _generate_fallback_image.
FallbackFailure(msg, events) == ImageResult(NoImage, None, NoB64, msg, events, <<>>)

_generate_fallback_image(survey_name, medical_specialty, save_filename, env, now) ==
    LET image_filename == IF ~Falsy(save_filename) THEN save_filename
                          ELSE FallbackFilename(survey_name, now)
        full_image_path == os_path_join(output_dir, image_filename)
        format == FormatOfFilename(full_image_path)
        Save(pil_image, render) ==
            IF format = ""
            THEN FallbackFailure(UnknownExtensionMsg, <<render>>)
            ELSE IF ~env.saveFallbackOK
            THEN FallbackFailure(DiskErrorMsg, <<render, SaveFile(full_image_path, FALSE)>>)
            ELSE ImageResult(pil_image, image_filename,
                             b64encode(EncodeImage(pil_image, "PNG")), FallbackMessage,
                             <<render, SaveFile(full_image_path, TRUE)>>,
                             <<[path |-> full_image_path,
                                data |-> EncodeImage(pil_image, format)]>>)
        Rendered(r) ==
            IF r.raised
            THEN FallbackFailure(r.msg, <<FallbackRender(survey_name, medical_specialty, FALSE)>>)
            ELSE Save(r.img, FallbackRender(survey_name, medical_specialty, TRUE))
    IN  Rendered(generate_pro_fallback(survey_name, medical_specialty, env.font))

\* generate_survey_image without the return of line 179: the fallback
\* runs after a remote image as well.
generate_survey_image_always_fallback(survey_name, medical_specialty, tone, image_style, include_text, save_filename, env, now, gemini) ==
    LET prompt == construct_image_prompt(survey_name, medical_specialty, tone,
                                         image_style, include_text)
        remote == _try_new_gemini_api(prompt, survey_name, save_filename, env, now, gemini)
        fallback == _generate_fallback_image(survey_name, medical_specialty,
                                             save_filename, env, now)
    IN  IF gemini # "none"
        THEN [fallback EXCEPT !.events = remote.events \o fallback.events,
                              !.writes = remote.writes \o fallback.writes]
        ELSE fallback

generate_survey_image(survey_name, medical_specialty, tone, image_style, include_text, save_filename, env, now, gemini) ==
    LET prompt == construct_image_prompt(survey_name, medical_specialty, tone,
                                         image_style, include_text)
        remote == _try_new_gemini_api(prompt, survey_name, save_filename, env, now, gemini)
        fallback == _generate_fallback_image(survey_name, medical_specialty,
                                            save_filename, env, now)
    IN  IF gemini # "none" /\ remote.pil_image # NoImage
        THEN remote
        ELSE IF gemini # "none"
        THEN [fallback EXCEPT !.events = remote.events \o fallback.events]
        ELSE fallback

(***************************************************************************)
(* HTTP endpoint: templates/app.py                                         *)
(***************************************************************************)
S_on == <<"o","n">>

\* request.form.get(key, default): a missing field is None.
FormGet(value, default) == IF value = None THEN default ELSE value

NameErrorText == <<"Survey name is required and must be at least 3 characters.">>
CompensationErrorText == <<"Compensation must be a non-negative number.">>
LoiErrorText == <<"Length of interview must be a positive number.">>
EducationalErrorText == <<"Educational tone requires educational information.">>

\* Line 31 and line 33: "not v or not v.isdigit() or int(v) < low".  The
\* int() of a string that passed isdigit() may raise.
NumberCheck(v, low) ==
    IF Falsy(v) \/ ~IsDigit(v) THEN [raised |-> FALSE, bad |-> TRUE]
    ELSE IF IntParse(v).raised THEN [raised |-> TRUE, bad |-> FALSE]
    ELSE [raised |-> FALSE, bad |-> IntParse(v).value < low]

\* Lines 27-36: the error list, or the exception that leaves the handler.
Validate(form) ==
    LET tone == FormGet(form.tone, S_professional)
        c == NumberCheck(form.compensation, 0)
        l == NumberCheck(form.loi, 1)
    IN  [raised |-> c.raised \/ l.raised,
         errors |->
            (IF Falsy(form.survey_name) \/ Len(Strip(form.survey_name)) < 3
             THEN <<NameErrorText>> ELSE <<>>)
            \o (IF c.bad THEN <<CompensationErrorText>> ELSE <<>>)
            \o (IF l.bad THEN <<LoiErrorText>> ELSE <<>>)
            \o (IF Lower(tone) = S_educational /\ Falsy(form.educational_info)
                THEN <<EducationalErrorText>> ELSE <<>>)]

\* The response of the handler, with the values its calls returned
\* (email, image), their calls (events) and their file writes.
Response(status, success, errors, email_content, img, email, image, events, writes) ==
    [status |-> status, success |-> success, errors |-> errors,
     email_content |-> email_content,
     image_base64 |-> img.image_base64, image_filename |-> img.image_filename,
     image_description |-> img.image_message,
     download_url |-> IF img.image_filename = None THEN None
                      ELSE <<"/", "download", "/">> \o img.image_filename,
     email |-> [text |-> email.text, error |-> email.error],
     image |-> [pil_image |-> image.pil_image, image_filename |-> image.image_filename,
                image_base64 |-> image.image_base64,
                image_message |-> image.image_message],
     events |-> events, writes |-> writes]

NoEmailResult == [text |-> None, error |-> None]

NoImageResult == ImageResult(NoImage, None, NoB64, None, <<>>, <<>>)

\* The handler of POST /generate.  status 500 is the unhandled exception.
generate(form, textEnv, imgEnv, now, gemini) ==
    LET survey_name == form.survey_name
        medical_specialty == FormGet(form.medical_specialty, S_general)
        tone == FormGet(form.tone, S_professional)
        image_style == FormGet(form.image_style, S_professional)
        include_text == form.include_text = S_on
        v == Validate(form)
        email == generate_email(survey_name, form.compensation, form.loi, tone,
                                form.educational_info, textEnv)
        img == generate_survey_image(survey_name, medical_specialty, S_professional,
                                     S_professional, TRUE, None, imgEnv, now, gemini)
    IN  IF v.raised
        THEN Response(500, FALSE, <<>>, None, NoImageResult, NoEmailResult, NoImageResult,
                      <<>>, <<>>)
        ELSE IF v.errors # <<>>
        THEN Response(200, FALSE, v.errors, None, NoImageResult, NoEmailResult,
                      NoImageResult, <<>>, <<>>)
        ELSE IF ~Falsy(email.error)
        THEN Response(200, FALSE, <<email.error>>, None, NoImageResult, email,
                      NoImageResult, email.events, <<>>)
        ELSE IF Falsy(img.image_filename)
        THEN Response(200, FALSE, <<img.image_message>>, None, NoImageResult, email, img,
                      email.events \o img.events, img.writes)
        ELSE Response(200, TRUE, <<>>, email.text, img, email, img,
                      email.events \o img.events, img.writes)

\* Lines 64-66: send_file opens a relative path below the application's
\* root directory, here the working directory; a file that is not there is
\* an unhandled FileNotFoundError.  The root directory holds app.py next to
\* the files of the output directory.
download(filename, written) ==
    LET root_path == <<"/", "app">>
        path == os_path_join(root_path, filename)
        app_py == os_path_join(root_path, <<"a", "p", "p", ".", "p", "y">>)
    IN  IF path \in DOMAIN written
        THEN [status |-> 200, path |-> path, body |-> written[path]]
        ELSE IF path = app_py
        THEN [status |-> 200, path |-> path, body |-> <<102, 114, 111, 109>>]
        ELSE [status |-> 500, path |-> path, body |-> NoBytes]

(***************************************************************************)
(* Inputs                                                                  *)
(***************************************************************************)
N_short == <<"a","b"," ">>
N_rich == <<"Q","3"," ","a","-","b","!"," ">>
N_under == <<"Q","3","_","a","-","b">>
S_Educational == <<"E","d","u","c","a","t","i","o","n","a","l">>
S_Cardiology == <<"C","a","r","d","i","o","l","o","g","y">>
S_info == <<"i","n","f","o">>
F_png == <<"t",".","p","n","g">>
F_jpg == <<"t",".","j","p","g">>

Forms ==
    [survey_name : {None, N_short, N_rich},
     medical_specialty : {S_Cardiology},
     tone : {S_formal, S_Educational},
     image_style : {None},
     compensation : {None, <<"5","0">>, <<"²">>},
     loi : {<<"1","5">>, <<"0">>},
     educational_info : {None, S_info},
     include_text : {S_on}]

EmailArgs ==
    [survey_name : {N_rich},
     compensation : {<<"5","0">>},
     loi : {<<"1","5">>},
     tone : {S_formal, S_educational, S_Educational, S_casual, S_compelling,
             S_professional, <<"F","O","R","M","A","L">>, <<"C","a","s","u","a","l">>,
             <<"f","o","r","m","a","l"," ">>, <<"f","o","r","m","a">>, <<>>},
     educational_info : {None, <<>>, S_info}]

ImageArgs ==
    [survey_name : {N_rich, N_under},
     medical_specialty : {S_Cardiology},
     tone : {S_professional},
     image_style : {S_professional},
     include_text : {TRUE},
     save_filename : {None, F_png, F_jpg}]

\* The draws of the environment an operation does not consult are fixed.
NoTextEnv == CHOOSE e \in TextOutcomes : e.ok
NoRemote == CHOOSE r \in RemoteOutcomes : r.raised
NoImageEnv ==
    [remote |-> NoRemote, saveRemoteOK |-> TRUE, saveFallbackOK |-> TRUE, font |-> "arial"]

\* The image environments that differ in what a call with this client
\* observes.
DistinctImageEnvs(gemini) ==
    {e \in ImageEnvs :
        /\ gemini # "new" => e.remote = NoRemote
        /\ LET r == _try_new_gemini_api(<<>>, <<>>, None, e, 0, gemini)
               saved == \E i \in DOMAIN r.events : r.events[i].svc = "save"
           IN  /\ ~saved => e.saveRemoteOK
               /\ r.pil_image # NoImage => e.saveFallbackOK /\ e.font = "arial"
        /\ ~e.saveFallbackOK => e.font = "arial"}

ImageEnvsNew == DistinctImageEnvs("new")
ImageEnvsOld == DistinctImageEnvs("old")
ImageEnvsNone == DistinctImageEnvs("none")

ImageEnvsFor(gemini) ==
    IF gemini = "new" THEN ImageEnvsNew
    ELSE IF gemini = "old" THEN ImageEnvsOld ELSE ImageEnvsNone

\* The calls that follow one another on one output directory: derived and
\* caller-supplied file names, a remote image or the fallback, a save that
\* fails.
DirArgs == {a \in ImageArgs : a.save_filename # F_jpg}

DirEnvs(gemini) ==
    {e \in ImageEnvsFor(gemini) :
        /\ e.font = "arial"
        /\ e.saveRemoteOK
        /\ e.remote.raised \/ e.remote.parts = <<ImagePart(1)>>}

(***************************************************************************)
(* State and operations                                                    *)
(***************************************************************************)
NoOp == [op |-> "none"]

\* The output directory after the writes of one operation.
RECURSIVE ApplyWrites(_, _)
ApplyWrites(f, writes) ==
    IF writes = <<>> THEN f
    ELSE LET wr == Head(writes)
             g == [q \in DOMAIN f \cup {wr.path} |-> IF q = wr.path THEN wr.data ELSE f[q]]
         IN  ApplyWrites(g, Tail(writes))

EmptyDir == [q \in {} |-> <<>>]

InitCommon ==
    /\ client \in {"new", "old", "none"}
    /\ clock = 0
    /\ files = EmptyDir
    /\ nOps = 0
    /\ last = NoOp

\* One request to POST /generate, with a form and an environment of the
\* given sets.
GenerateOn(formSet, textEnvSet, imgEnvSet) ==
    /\ nOps < MaxOps
    /\ \E form \in formSet :
         LET v == Validate(form)
             valid == ~v.raised /\ v.errors = <<>>
         IN  \E textEnv \in (IF valid THEN textEnvSet ELSE {NoTextEnv}) :
               \E imgEnv \in (IF valid /\ textEnv.ok THEN imgEnvSet
                              ELSE {NoImageEnv}) :
                 LET r == generate(form, textEnv, imgEnv, clock, client)
                 IN  /\ last' = [op |-> "generate", form |-> form, now |-> clock,
                                 resp |-> r]
                     /\ files' = ApplyWrites(files, r.writes)
    /\ nOps' = nOps + 1
    /\ UNCHANGED <<client, clock, sanIn, sanOut>>

Generate == GenerateOn(Forms, TextOutcomes, ImageEnvsFor(client))

\* A valid request in which the fields that shape the image differ: the
\* tone, a style that is given or not, the text overlay switched on or off.
GenerateStyled ==
    GenerateOn([survey_name : {N_under}, medical_specialty : {S_Cardiology},
                tone : {S_formal, S_casual}, image_style : {None, S_infographic},
                compensation : {<<"5", "0">>}, loi : {<<"1", "5">>},
                educational_info : {None}, include_text : {S_on, None}],
               {NoTextEnv}, DirEnvs(client))

\* GET /download/<path:filename> for the file name of the response just
\* given, for that file's path below the application directory, and for the
\* application's own source file.
Download ==
    /\ last.op = "generate"
    /\ last.resp.success
    /\ \E filename \in {last.resp.image_filename,
                         SubSeq(output_dir, 4, 6) \o <<"/">>
                             \o last.resp.image_filename,
                         <<"a", "p", "p", ".", "p", "y">>} :
         last' = [op |-> "download", filename |-> filename,
                  download_url |-> last.resp.download_url,
                  writes |-> last.resp.writes,
                  ret |-> download(filename, files)]
    /\ UNCHANGED <<client, clock, files, nOps, sanIn, sanOut>>

\* One direct call of generate_email.
CallGenerateEmail ==
    /\ nOps < MaxOps
    /\ \E a \in EmailArgs :
         LET p == construct_prompt(a.survey_name, a.compensation, a.loi, a.tone,
                                   a.educational_info)
         IN  \E textEnv \in (IF p.raised THEN {NoTextEnv} ELSE TextOutcomes) :
               last' = [op |-> "generate_email", args |-> a, built |-> p,
                        ret |-> generate_email(a.survey_name, a.compensation, a.loi,
                                               a.tone, a.educational_info, textEnv)]
    /\ nOps' = nOps + 1
    /\ UNCHANGED <<client, clock, files, sanIn, sanOut>>

\* A call that empties the output directory before it writes.
CallGenerateSurveyImageOn_emptied_dir(argSet, envSet, maxOps) ==
    /\ nOps < maxOps
    /\ \E a \in argSet :
         \E imgEnv \in envSet :
           LET r == generate_survey_image(a.survey_name, a.medical_specialty, a.tone,
                                          a.image_style, a.include_text,
                                          a.save_filename, imgEnv, clock, client)
           IN  /\ last' = [op |-> "generate_survey_image", args |-> a, now |-> clock,
                           ret |-> r]
               /\ files' = ApplyWrites(EmptyDir, r.writes)
    /\ nOps' = nOps + 1
    /\ UNCHANGED <<client, clock, sanIn, sanOut>>

\* One direct call of generate_survey_image, with arguments and an
\* environment of the given sets.
CallGenerateSurveyImageOn(argSet, envSet, maxOps) ==
    /\ nOps < maxOps
    /\ \E a \in argSet :
         \E imgEnv \in envSet :
           LET r == generate_survey_image(a.survey_name, a.medical_specialty, a.tone,
                                          a.image_style, a.include_text,
                                          a.save_filename, imgEnv, clock, client)
           IN  /\ last' = [op |-> "generate_survey_image", args |-> a, now |-> clock,
                           ret |-> r]
               /\ files' = ApplyWrites(files, r.writes)
    /\ nOps' = nOps + 1
    /\ UNCHANGED <<client, clock, sanIn, sanOut>>

CallGenerateSurveyImage ==
    CallGenerateSurveyImageOn(ImageArgs, ImageEnvsFor(client), MaxOps)

CallInDir == CallGenerateSurveyImageOn(DirArgs, DirEnvs(client), MaxOps + 1)

\* A second passes.
Tick ==
    /\ clock < MaxClock
    /\ clock' = clock + 1
    /\ UNCHANGED <<client, files, nOps, last, sanIn, sanOut>>

\* The file-name sanitization applied to its own result.
Sanitize ==
    /\ Len(sanOut) < 2
    /\ sanOut' = Append(sanOut, SafeStem(IF sanOut = <<>> THEN sanIn
                                         ELSE sanOut[Len(sanOut)]))
    /\ UNCHANGED <<client, clock, files, nOps, last, sanIn>>

Init == InitCommon /\ sanIn = <<>> /\ sanOut = <<>>

Next == Generate \/ Tick

Spec == Init /\ [][Next]_vars

NextEmail == CallGenerateEmail \/ Tick

SpecEmail == Init /\ [][NextEmail]_vars

NextImage == CallGenerateSurveyImage \/ Tick

SpecImage == Init /\ [][NextImage]_vars

\* The inputs of the two components that resolve a specialty, the image
\* prompt builder and the fallback renderer: every key of either table, keys
\* in other letter cases, strings that are no key; survey names up to and
\* beyond the width of a title line.
RenderArgs ==
    [survey_name : {<<>>, <<" ", " ">>, N_rich,
                    [i \in 1..35 |-> "a"], [i \in 1..36 |-> "a"],
                    [i \in 1..36 |-> IF i = 36 THEN " " ELSE "a"],
                    [i \in 1..40 |-> IF i = 20 THEN " " ELSE "b"],
                    [i \in 1..75 |-> IF i \in {30, 60} THEN "-" ELSE "c"]},
     specialty : DOMAIN specialty_elements
                 \cup {S_Cardiology, <<"P","H","A","R","M","A","C","Y">>,
                       <<"d","e","r","m","a">>, <<>>},
     font : Fonts]

\* The arguments are drawn.
InitRender ==
    /\ client = "none"
    /\ clock = 0
    /\ files = EmptyDir
    /\ nOps = 0
    /\ last \in {[op |-> "args", args |-> a] : a \in RenderArgs}
    /\ sanIn = <<>>
    /\ sanOut = <<>>

\* The image prompt builder and the fallback renderer are applied to the
\* same survey name and specialty.
Render ==
    /\ last.op = "args"
    /\ last' = [op |-> "render", args |-> last.args,
                prompt |-> construct_image_prompt(last.args.survey_name,
                                                  last.args.specialty, S_professional,
                                                  S_professional, TRUE),
                title_lines |-> SplitLines(textwrap_fill(last.args.survey_name)),
                ret |-> generate_pro_fallback(last.args.survey_name,
                                              last.args.specialty, last.args.font)]
    /\ UNCHANGED <<client, clock, files, nOps, sanIn, sanOut>>

NextRender == Render

SpecRender == InitRender /\ [][NextRender]_vars

NextDir == CallInDir \/ Tick

SpecDir == Init /\ [][NextDir]_vars

NextWeb == GenerateStyled \/ Download \/ Tick

SpecWeb == Init /\ [][NextWeb]_vars

SanAlphabet == {"a", "Q", "3", " ", "-", "_", "!", "\t"}

N_example == <<"Q","3"," ","C","a","r","d","i","o","l","o","g","y"," ",
               "C","h","e","c","k","-","I","n","!">>

SanNames == UNION {[1..n -> SanAlphabet] : n \in 0..MaxNameLen} \cup {N_example}

InitSanitize == InitCommon /\ sanIn \in SanNames /\ sanOut = <<>>

NextSanitize == Sanitize

SpecSanitize == InitSanitize /\ [][NextSanitize]_vars


(***************************************************************************)
(* Properties                                                              *)
(***************************************************************************)
EventsOf(events, svc) == {i \in DOMAIN events : events[i].svc = svc}

\* C1: a call of the email path with an educational tone (in any letter
\* case) and absent or empty educational info fails in the prompt builder,
\* and the remote text service is not called.
C1_NoCallWithoutEducationalInfo ==
    (/\ last.op = "generate_email"
     /\ Lower(last.args.tone) = S_educational
     /\ last.args.educational_info \in {None, <<>>})
    => /\ last.built.raised
       /\ EventsOf(last.ret.events, "text") = {}

C1_Witness ==
    /\ last.op = "generate_email"
    /\ last.args.tone = S_Educational
    /\ last.args.educational_info = <<>>
    /\ last.built.raised
    /\ last.ret.events = <<>>

\* C2 as claimed: the caller of generate_email observes the builder's own
\* failure, of the same kind and with the same message.
C2_PropagatedUnchanged ==
    (last.op = "generate_email" /\ last.built.raised)
    => /\ last.ret.raised
       /\ last.ret.kind = last.built.kind
       /\ last.ret.msg = last.built.msg

\* C2 as amended: generate_email raises nothing; the builder's failure comes
\* back as no text and the error "Error generating email: " followed by the
\* builder's message, the wrapping a remote failure gets as well.
C2_WrappedError ==
    last.op = "generate_email"
    => /\ ~last.ret.raised
       /\ last.built.raised
          => /\ last.ret.text = None
             /\ last.ret.error = <<"Error generating email: ">> \o last.built.msg
       /\ \A i \in EventsOf(last.ret.events, "text") :
            ~last.ret.events[i].outcome.ok
            => /\ last.ret.text = None
               /\ last.ret.error = <<"Error generating email: ">>
                                   \o last.ret.events[i].outcome.msg

C2_Witness ==
    /\ last.op = "generate_email"
    /\ last.built.raised
    /\ last.built.kind = "ValueError"
    /\ last.ret.error = <<"Error generating email: ",
                          "Educational tone selected, but no educational info provided.">>

\* The rules of the form, as the claim C3 states them.
IsDecimal(v) == v # None /\ v # <<>> /\ \A i \in DOMAIN v : v[i] \in AsciiDigits

ViolatedRules(form) ==
    {r \in {"survey_name", "compensation", "loi", "educational_info"} :
        \/ /\ r = "survey_name"
           /\ form.survey_name = None \/ Len(Strip(form.survey_name)) < 3
        \/ /\ r = "compensation"
           /\ ~IsDecimal(form.compensation)
        \/ /\ r = "loi"
           /\ ~IsDecimal(form.loi) \/ DecimalValue(form.loi) < 1
        \/ /\ r = "educational_info"
           /\ Lower(FormGet(form.tone, S_professional)) = S_educational
           /\ form.educational_info \in {None, <<>>}}

\* C3: a request that violates a rule of the form gets a failure response
\* with one error for each violated rule, and no service is called.
C3_ValidationFailureReported ==
    (last.op = "generate" /\ ViolatedRules(last.form) # {})
    => /\ last.resp.status = 200
       /\ ~last.resp.success
       /\ Len(last.resp.errors) = Cardinality(ViolatedRules(last.form))
       /\ last.resp.events = <<>>

IsImagePart(part) == part.text = None /\ part.data # NoBytes

\* The response has an image part and its first image part decodes.
RemoteImageUsable(outcome) ==
    /\ ~outcome.raised
    /\ \E i \in DOMAIN outcome.parts :
         /\ IsImagePart(outcome.parts[i])
         /\ \A j \in 1..(i - 1) : ~IsImagePart(outcome.parts[j])
         /\ ~DecodeImage(outcome.parts[i].data).raised

\* The remote path saved its image: a save that succeeded, before any
\* fallback rendering.
RemoteSaved(events) ==
    \E i \in EventsOf(events, "save") :
      /\ events[i].ok
      /\ \A j \in EventsOf(events, "fallback") : i < j

\* C4 as claimed: exactly one remote call in every call of
\* generate_survey_image, one fallback rendering when the remote call gave
\* no usable image, none when it gave one.
C4_OneRemoteCallAlways ==
    last.op = "generate_survey_image"
    => LET ev == last.ret.events
       IN  /\ Cardinality(EventsOf(ev, "image")) = 1
           /\ \A i \in EventsOf(ev, "image") :
                Cardinality(EventsOf(ev, "fallback"))
                  = IF RemoteImageUsable(ev[i].outcome) THEN 0 ELSE 1

\* C4 as amended: one remote call when the google.genai client was imported
\* and none otherwise, never a second one; one fallback rendering when the
\* remote path returned no image (no client, an error, no image part, a
\* decode failure, a failure to save), none when it returned one.
C4_AtMostOneRemoteCall ==
    last.op = "generate_survey_image"
    => LET ev == last.ret.events
           delivered == /\ client = "new"
                        /\ \E i \in EventsOf(ev, "image") : RemoteImageUsable(ev[i].outcome)
                        /\ RemoteSaved(ev)
       IN  /\ Cardinality(EventsOf(ev, "image")) = IF client = "new" THEN 1 ELSE 0
           /\ Cardinality(EventsOf(ev, "fallback")) = IF delivered THEN 0 ELSE 1

C4_Witness ==
    /\ last.op = "generate_survey_image"
    /\ Cardinality(EventsOf(last.ret.events, "image")) = 1
    /\ \E i \in EventsOf(last.ret.events, "image") :
         last.ret.events[i].outcome.parts = <<CorruptPart, ImagePart(1)>>
    /\ Cardinality(EventsOf(last.ret.events, "fallback")) = 1

RemoteRaised(events) ==
    \E i \in EventsOf(events, "image") : events[i].outcome.raised

FallbackImages(survey_name, specialty) ==
    {generate_pro_fallback(survey_name, specialty, f).img : f \in {"arial", "default"}}

FallbackRenderFailed(events) ==
    \E i \in EventsOf(events, "fallback") : ~events[i].ok

\* Saving the fallback image failed.
FallbackSaveFailed(events) ==
    \E i \in EventsOf(events, "save") :
      /\ ~events[i].ok
      /\ \E j \in EventsOf(events, "fallback") : j < i

\* C6: when the fallback renderer or the saving of its image raises,
\* generate_survey_image returns no image, no file name, no payload and the
\* error's message, and the endpoint answers success=false with that
\* message as its only error.
C6_FallbackFailureReported ==
    (/\ last.op = "generate"
     /\ FallbackRenderFailed(last.resp.events) \/ FallbackSaveFailed(last.resp.events))
    => /\ last.resp.image
            = [pil_image |-> NoImage, image_filename |-> None, image_base64 |-> NoB64,
               image_message |-> IF FallbackRenderFailed(last.resp.events)
                                 THEN <<"Only supported for TrueType fonts">>
                                 ELSE <<"[Errno 28] No space left on device">>]
       /\ last.resp.status = 200
       /\ ~last.resp.success
       /\ last.resp.errors = <<last.resp.image.image_message>>
       /\ last.resp.writes = <<>>

C6_Witness ==
    /\ last.op = "generate"
    /\ FallbackRenderFailed(last.resp.events)
    /\ ~last.resp.success
    /\ last.resp.errors = <<TextbboxErrorMsg>>

TextFailed(events) ==
    \E i \in EventsOf(events, "text") : ~events[i].outcome.ok

\* C7: when the remote text service fails, generate_email has called it
\* once, returns no text and an error, nothing replaces the text, and the
\* endpoint answers with that error without generating an image; an image
\* is generated only after a text call that succeeded.
C7_TextFailureEndsRequest ==
    last.op = "generate"
    => LET ev == last.resp.events
       IN  /\ TextFailed(ev)
              => /\ Len(ev) = 1
                 /\ last.resp.email.text = None
                 /\ last.resp.email.error
                      = <<"Error generating email: ">> \o ev[1].outcome.msg
                 /\ ~last.resp.success
                 /\ last.resp.email_content = None
                 /\ last.resp.errors = <<last.resp.email.error>>
                 /\ last.resp.writes = <<>>
           /\ \A i \in DOMAIN ev :
                ev[i].svc # "text"
                => /\ ev[1].svc = "text" /\ ev[1].outcome.ok
                   /\ EventsOf(ev, "text") = {1}

C7_Witness ==
    /\ last.op = "generate"
    /\ TextFailed(last.resp.events)
    /\ last.resp.errors = <<EmailErrorPrefix \o <<"429 quota exceeded">> >>

\* C8: the file saved under the returned name holds the bytes the returned
\* base64 text decodes to.
C8_FileEqualsPayload ==
    (last.op = "generate_survey_image" /\ last.ret.pil_image # NoImage)
    => LET path == os_path_join(output_dir, last.ret.image_filename)
       IN  /\ path \in DOMAIN files
           /\ files[path] = b64decode(last.ret.image_base64)

\* The stem of a survey name, as the claim C9 states it.
ExpectedStem(name) ==
    LET kept == SelectSeq(name, LAMBDA c : IsAlnum(c) \/ c = " " \/ c = "-" \/ c = "_")
        n == IF \E i \in DOMAIN kept : kept[i] \notin WhitespaceChars
             THEN CHOOSE i \in DOMAIN kept :
                    /\ kept[i] \notin WhitespaceChars
                    /\ \A j \in (i + 1)..Len(kept) : kept[j] \in WhitespaceChars
             ELSE 0
    IN  [i \in 1..n |-> IF kept[i] = " " THEN "_" ELSE kept[i]]

\* C9: without a supplied file name the returned name is the prefix, the
\* stem of the survey name, "_", the time to the second and ".png", with
\* the prefix "fallback_" for an image of the local renderer and
\* "survey_image_" for an image of the remote service; a supplied file name
\* is returned as it is.
C9_FilenameDerivation ==
    (last.op = "generate_survey_image" /\ last.ret.pil_image # NoImage)
    => LET a == last.args
           fromFallback == last.ret.pil_image
                             \in FallbackImages(a.survey_name, a.medical_specialty)
           prefix == IF fromFallback THEN <<"f","a","l","l","b","a","c","k","_">>
                     ELSE <<"s","u","r","v","e","y","_","i","m","a","g","e","_">>
       IN  IF a.save_filename \notin {None, <<>>}
           THEN last.ret.image_filename = a.save_filename
           ELSE /\ last.ret.image_filename
                     = prefix \o ExpectedStem(a.survey_name) \o <<"_">>
                       \o Timestamp(last.now) \o <<".","p","n","g">>
                /\ Len(Timestamp(last.now)) = 15
                /\ \A t \in 0..MaxClock : t # last.now => Timestamp(t) # Timestamp(last.now)

C9_Witness ==
    /\ last.op = "generate_survey_image"
    /\ last.args.survey_name = <<"Q","3"," ","a","-","b","!"," ">>
    /\ last.args.save_filename = None
    /\ last.now = 1
    /\ last.ret.image_filename
         = <<"s","u","r","v","e","y","_","i","m","a","g","e","_","Q","3","_","a","-","b",
             "_","2","0","2","5","0","1","0","1","_","0","0","0","0","0","1",
             ".","p","n","g">>

\* The tones whose guideline block a prompt carries.
TonesIn(prompt) ==
    {k \in DOMAIN tone_instructions :
        \E i \in DOMAIN prompt :
            prompt[i].blk = "TONE" /\ prompt[i].arg = <<tone_instructions[k]>>}

\* C11: for a tone that is none of formal, casual, educational, compelling
\* in any letter case, construct_prompt does not fail and its prompt has one
\* tone block, the formal one; for a recognized tone the prompt has that
\* tone's block and no other, and the builder fails only for an educational
\* tone without educational info.
C11_UnknownToneIsFormal ==
    last.op = "generate_email"
    => LET tone == last.args.tone
           recognized == Lower(tone) \in {S_formal, S_casual, S_educational, S_compelling}
           blocks == {i \in DOMAIN last.built.value : last.built.value[i].blk = "TONE"}
       IN  /\ ~recognized => /\ ~last.built.raised
                              /\ TonesIn(last.built.value) = {S_formal}
           /\ recognized /\ ~last.built.raised => TonesIn(last.built.value) = {Lower(tone)}
           /\ ~last.built.raised => Cardinality(blocks) = 1
           /\ last.built.raised
              => Lower(tone) = S_educational /\ last.args.educational_info \in {None, <<>>}

C11_Witness ==
    /\ last.op = "generate_email"
    /\ last.args.tone = <<"p","r","o","f","e","s","s","i","o","n","a","l">>
    /\ ~last.built.raised
    /\ \E i \in DOMAIN last.built.value :
         last.built.value[i] = Block("TONE", << <<"TONE GUIDELINES - FORMAL">> >>)

\* C10: sanitizing a sanitized stem gives the same stem, and the stem of
\* "Q3 Cardiology Check-In!" is "Q3_Cardiology_Check-In".
C10_SanitizeIdempotent ==
    /\ Len(sanOut) = 2 => sanOut[2] = sanOut[1]
    /\ (Len(sanOut) >= 1 /\ sanIn = N_example)
       => sanOut[1] = <<"Q","3","_","C","a","r","d","i","o","l","o","g","y","_",
                        "C","h","e","c","k","-","I","n">>

C10_Witness ==
    /\ Len(sanOut) = 2
    /\ sanIn = N_example
    /\ sanOut[1] # sanIn
    /\ sanOut[2] = <<"Q","3","_","C","a","r","d","i","o","l","o","g","y","_",
                     "C","h","e","c","k","-","I","n">>

\* The specialty whose phrase the image prompt carries, and the specialty
\* whose colors the image of the fallback renderer has.
PromptSpecialties(prompt) ==
    {k \in DOMAIN specialty_elements :
        \E i \in DOMAIN prompt :
            /\ prompt[i].blk = "Specialty Elements"
            /\ prompt[i].arg = <<specialty_elements[k]>>}

ImageSpecialties(img) ==
    {k \in DOMAIN colors :
        SubSeq(img.px, 1, 9) = colors[k][1] \o colors[k][3] \o colors[k][2]}

\* C12: the image prompt builder and the fallback renderer resolve every
\* specialty consistently: the prompt carries the "general" phrase exactly
\* when the image has the "general" colors.
C12_SpecialtiesResolveAlike ==
    (last.op = "render" /\ ~last.ret.raised)
    => (S_general \in PromptSpecialties(last.prompt)
        <=> S_general \in ImageSpecialties(last.ret.img))

\* C15: generate_pro_fallback raises for no survey name, specialty and font,
\* and returns an RGB image of 1280 by 720; the title lines have at most 35
\* characters, and a name of more than 35 characters has more than one.
C15_FallbackRendererTotal ==
    last.op = "render"
    => /\ ~last.ret.raised
       /\ last.ret.img.w = 1280 /\ last.ret.img.h = 720 /\ last.ret.img.mode = "RGB"
       /\ \A i \in DOMAIN last.title_lines : Len(last.title_lines[i]) <= 35
       /\ Len(last.args.survey_name) > 35 => Len(last.title_lines) > 1

\* C13: a remote response gives the result of the call exactly when it has
\* an image part; the result is its first image part, decoded, with the text
\* of a text part of the response as message, wherever that part is, and
\* with the default message when there is no text part.
C13_RemoteResponseSuccess ==
    last.op = "generate_survey_image"
    => LET ev == last.ret.events
       IN  \A c \in EventsOf(ev, "image") :
             ~ev[c].outcome.raised
             => LET parts == ev[c].outcome.parts
                    images == {i \in DOMAIN parts : IsImagePart(parts[i])}
                    texts == {parts[i].text : i \in {j \in DOMAIN parts : parts[j].text # None}}
                    succeeded == EventsOf(ev, "fallback") = {}
                    first == CHOOSE i \in images : \A j \in images : i <= j
                IN  /\ succeeded <=> images # {}
                    /\ succeeded
                       => /\ last.ret.pil_image = DecodeImage(parts[first].data).img
                          /\ texts # {} => last.ret.image_message \in texts
                          /\ texts = {} => last.ret.image_message = DefaultImageMessage

\* C14 as claimed: every call of generate_survey_image that returns an
\* image creates a new file, and no call changes a file that was in the
\* output directory before it.
C14_AppendOnly ==
    [][(last'.op = "generate_survey_image" /\ nOps' = nOps + 1)
       => /\ \A q \in DOMAIN files : q \in DOMAIN files' /\ files'[q] = files[q]
          /\ last'.ret.image_filename # None => DOMAIN files' # DOMAIN files]_vars

\* C14, amended: a call of generate_survey_image changes no file but the
\* one it returns the name of, and removes none; a call that returns an
\* image leaves its file in the output directory, a new one exactly when
\* no file of that name was there; a call that returns no image changes
\* nothing.
C14_OnlyReturnedFileWritten ==
    [][(last'.op = "generate_survey_image" /\ nOps' = nOps + 1)
       => LET name == last'.ret.image_filename
              path == os_path_join(output_dir, name)
          IN  /\ DOMAIN files \subseteq DOMAIN files'
              /\ name = None => files' = files
              /\ name # None
                 => /\ DOMAIN files' = DOMAIN files \cup {path}
                    /\ files'[path] = EncodeImage(last'.ret.pil_image,
                                                  FormatOfFilename(path))
                    /\ \A q \in DOMAIN files : q # path => files'[q] = files[q]]_vars

\* A second call has left a second file next to the first one.
C14_Witness ==
    /\ last.op = "generate_survey_image"
    /\ nOps = 2
    /\ last.ret.image_filename # None
    /\ Cardinality(DOMAIN files) = 2

\* C16: the image prompt of a valid request is the one built from the
\* request's fields: its tone and style, the no-text instruction when
\* include_text is off, the block of a recognized image_style.
C16_PromptFromForm ==
    last.op = "generate"
    => LET ev == last.resp.events
           form == last.form
       IN  \A c \in EventsOf(ev, "image") :
             /\ ev[c].prompt
                  = construct_image_prompt(form.survey_name,
                                           FormGet(form.medical_specialty, S_general),
                                           FormGet(form.tone, S_professional),
                                           FormGet(form.image_style, S_professional),
                                           form.include_text = S_on)
             /\ form.include_text # S_on
                => \E i \in DOMAIN ev[c].prompt :
                     ev[c].prompt[i].blk = "Create image without text overlay"
             /\ Lower(FormGet(form.image_style, S_professional)) \in DOMAIN style_instructions
                => \E i \in DOMAIN ev[c].prompt :
                     ev[c].prompt[i]
                       = Block("STYLE", <<style_instructions[Lower(form.image_style)]>>)

\* C17: the download of the file name of a successful response opens the
\* path the request wrote and serves what was written; a download serves
\* only files of the output directory.
C17_DownloadServesWrittenFile ==
    last.op = "download"
    => /\ last.download_url = <<"/", "download", "/">> \o last.filename
          => /\ last.ret.status = 200
             /\ \E i \in DOMAIN last.writes :
                  /\ last.ret.path = last.writes[i].path
                  /\ last.ret.body = last.writes[i].data
       /\ last.ret.status = 200
          => StartsWith(last.ret.path, output_dir \o <<"/">>)

====
